---- MODULE Spec2Model ----
(***************************************************************************)
(* The session gate of src/src/server/auth-proxy.ts: the Express           *)
(* middleware that decides, for every request, whether it is passed to the *)
(* backend (next()), redirected, or refreshed through the identity         *)
(* provider (supabase.auth.setSession), together with the cookie store of  *)
(* the client the responses are delivered to.                              *)
(*                                                                         *)
(* Strings the code parses or tests (query values, cookie values, paths)   *)
(* are sequences of one-character strings, so that parseInt and            *)
(* startsWith are computed, not assumed.  Times are milliseconds, as       *)
(* Date.now() gives them; expires_at values are seconds, as the code       *)
(* reads them.                                                             *)
(***************************************************************************)
EXTENDS Integers, Sequences, FiniteSets, TLC

VARIABLES
    BYPASS_AUTH,    \* process.env.BYPASS_AUTH === 'true'
    production,     \* process.env.NODE_ENV === 'production'
    now,            \* the clock, Date.now(), in ms
    ticks,          \* how often the clock was advanced (bounded)
    jar,            \* the client's cookie store: name -> [value, deadline]
    req,            \* the request being handled (or handled last)
    pc,             \* "idle" | "awaiting" (inside await setSession) | "responded"
    res,            \* the response of the gate to req
    calls,          \* number of setSession calls made for req
    reply,          \* what setSession produced for req
    peer,           \* a second request of the same browser, in flight beside req
    seen,           \* when the browser last bootstrapped, and last held a session
    proc,           \* the server process: its environment, its supabase client, its status
    outDir,         \* the names of the files in the out/ directory
    page            \* the downloads page open in the browser: its script's state

vars ==
    <<BYPASS_AUTH, production, now, ticks, jar, req, pc, res, calls, reply, peer, seen, proc,
      outDir, page>>

----------------------------------------------------------------------------
(* Bounds of the model *)

MaxTicks == 2       \* clock advances per behaviour
MaxPathLen == 3     \* length of the request paths tried exhaustively
MaxFetches == 2     \* fetches of /api/renders the page has in flight together
MaxDownloads == 2   \* downloads of one file the model counts

(* Program constants *)

REFRESH_BUFFER == 5 * 60 * 1000
SESSION_MAX_AGE == 24 * 60 * 60 * 1000
ERP_URL == <<"h", "t", "t", "p", "s", ":", "/", "/", "e", "r", "p">>

(* The instant the model starts at, and the amounts the clock moves by *)
T0 == 600 * 1000
Deltas == {1000, REFRESH_BUFFER, SESSION_MAX_AGE}
\* ms that may pass between the two Date.now() reads of one run of the handler
Drifts == {0, 1}

----------------------------------------------------------------------------
(* JavaScript numbers: an integer or NaN *)

Num(v) == [nan |-> FALSE, v |-> v]
NaN == [nan |-> TRUE, v |-> 0]

Lt(a, b) == ~a.nan /\ ~b.nan /\ a.v < b.v
Gt(a, b) == ~a.nan /\ ~b.nan /\ a.v > b.v
Minus(a, b) == IF a.nan \/ b.nan THEN NaN ELSE Num(a.v - b.v)
Times(a, k) == IF a.nan THEN NaN ELSE Num(a.v * k)
MathMin(a, b) == IF a.nan \/ b.nan THEN NaN ELSE IF a.v < b.v THEN a ELSE b

Digits == {"0", "1", "2", "3", "4", "5", "6", "7", "8", "9"}

DigitVal(c) ==
    CASE c = "0" -> 0 [] c = "1" -> 1 [] c = "2" -> 2 [] c = "3" -> 3
      [] c = "4" -> 4 [] c = "5" -> 5 [] c = "6" -> 6 [] c = "7" -> 7
      [] c = "8" -> 8 [] c = "9" -> 9

RECURSIVE DigitPrefix(_, _)
\* value of the longest prefix of decimal digits of s, given the value acc read so far
DigitPrefix(s, acc) ==
    IF s = <<>> \/ Head(s) \notin Digits THEN acc
    ELSE DigitPrefix(Tail(s), acc * 10 + DigitVal(Head(s)))

RECURSIVE TrimStart(_)
TrimStart(s) == IF s # <<>> /\ Head(s) = " " THEN TrimStart(Tail(s)) ELSE s

\* parseInt(string): leading blanks skipped, an optional sign, then the longest
\* run of decimal digits; NaN when there is no digit; what follows is ignored
parseInt(str) ==
    LET s == TrimStart(str)
        neg == s # <<>> /\ Head(s) = "-"
        body == IF s # <<>> /\ Head(s) \in {"-", "+"} THEN Tail(s) ELSE s
    IN  IF body = <<>> \/ Head(body) \notin Digits THEN NaN
        ELSE IF neg THEN Num(0 - DigitPrefix(body, 0)) ELSE Num(DigitPrefix(body, 0))

RECURSIVE NatToString(_)
NatToString(n) ==
    LET d == CHOOSE c \in Digits : DigitVal(c) = n % 10
    IN  IF n < 10 THEN <<d>> ELSE Append(NatToString(n \div 10), d)

\* Number.prototype.toString() of an integer
toString(n) == IF n < 0 THEN <<"-">> \o NatToString(0 - n) ELSE NatToString(n)

StartsWith(s, p) == Len(s) >= Len(p) /\ SubSeq(s, 1, Len(p)) = p

----------------------------------------------------------------------------
(* Objects with optional string members: req.query, req.cookies *)

EmptyMap == [k \in {} |-> <<>>]

\* !obj[k] : the member is undefined or the empty string
Falsy(obj, k) == k \notin DOMAIN obj \/ obj[k] = <<>>

\* obj[k] || dflt
OrElse(obj, k, dflt) == IF Falsy(obj, k) THEN dflt ELSE obj[k]

QueryNames == {"token", "refresh_token", "expires_at"}
CookieNames == {"studio_token", "studio_refresh", "studio_expires"}

----------------------------------------------------------------------------
(* Responses *)

\* res before the handler has produced anything
\* content: what a route behind the gate sent for the request
NoRes ==
    [kind |-> "none", location |-> <<>>, setCookie |-> EmptyMap,
     cleared |-> {}, wroteAt |-> 0 - 1, content |-> "none"]

\* next(): the request is passed to the routes behind the gate
PassOn == [NoRes EXCEPT !.kind = "next"]

\* mutant: every redirect preceded by the three res.clearCookie calls
RedirectClearing(url) ==
    [NoRes EXCEPT !.kind = "redirect", !.location = url, !.cleared = CookieNames]

\* res.redirect(url)
Redirect(url) == [NoRes EXCEPT !.kind = "redirect", !.location = url]

\* the async handler's promise rejected: no res.* call was completed
Threw == [NoRes EXCEPT !.kind = "throw"]

\* What a rejected promise of the async middleware turns into depends on the
\* Express major the build resolves: no response at all (4.x leaves the
\* rejection unhandled) or a 500 from the default error handler (5.x)
ThrowOutcomes == {"hang", "error"}

\* mutant: the secure member left out
secureCookieOptionsNotSecure ==
    [httpOnly |-> TRUE, secure |-> FALSE, sameSite |-> "lax"]

\* { httpOnly: true, secure: process.env.NODE_ENV === 'production', sameSite: 'lax' }
secureCookieOptions ==
    [httpOnly |-> TRUE, secure |-> production, sameSite |-> "lax"]

\* mutant: the options not spread into the call, so Express's defaults apply
CookieBare(value, maxAge) ==
    [value |-> value, maxAge |-> maxAge,
     httpOnly |-> FALSE, secure |-> FALSE, sameSite |-> "none"]

\* one res.cookie(name, value, { ...secureCookieOptions, maxAge })
Cookie(value, maxAge) ==
    [value |-> value, maxAge |-> maxAge,
     httpOnly |-> secureCookieOptions.httpOnly,
     secure |-> secureCookieOptions.secure,
     sameSite |-> secureCookieOptions.sameSite]

\* mutant: the access and the refresh credential written to each other's cookie
SessionCookiesSwapped(token, refresh, expires, maxAge) ==
    [k \in CookieNames |->
        CASE k = "studio_token" -> Cookie(refresh, maxAge)
          [] k = "studio_refresh" -> Cookie(token, SESSION_MAX_AGE)
          [] k = "studio_expires" -> Cookie(expires, maxAge)]

\* mutant: studio_expires given the lifetime of studio_refresh
SessionCookiesLongExpires(token, refresh, expires, maxAge) ==
    [k \in CookieNames |->
        CASE k = "studio_token" -> Cookie(token, maxAge)
          [] k = "studio_refresh" -> Cookie(refresh, SESSION_MAX_AGE)
          [] k = "studio_expires" -> Cookie(expires, SESSION_MAX_AGE)]

\* mutant: studio_refresh given the lifetime of studio_token
SessionCookiesShortRefresh(token, refresh, expires, maxAge) ==
    [k \in CookieNames |->
        CASE k = "studio_token" -> Cookie(token, maxAge)
          [] k = "studio_refresh" -> Cookie(refresh, maxAge)
          [] k = "studio_expires" -> Cookie(expires, maxAge)]

\* the three res.cookie calls of a session write
SessionCookies(token, refresh, expires, maxAge) ==
    [k \in CookieNames |->
        CASE k = "studio_token" -> Cookie(token, maxAge)
          [] k = "studio_refresh" -> Cookie(refresh, SESSION_MAX_AGE)
          [] k = "studio_expires" -> Cookie(expires, maxAge)]

\* mutant: studio_refresh not cleared
ClearedCookiesNoRefresh == {"studio_token", "studio_expires"}

\* the three res.clearCookie calls of a failed refresh
ClearedCookies == {"studio_token", "studio_refresh", "studio_expires"}

----------------------------------------------------------------------------
(* The conditions of the middleware *)

\* req.query.token && req.query.refresh_token && req.query.expires_at
IsBootstrap(query) ==
    ~Falsy(query, "token") /\ ~Falsy(query, "refresh_token") /\ ~Falsy(query, "expires_at")

\* parseInt(req.query.expires_at) * 1000
BootstrapExpiresAt(query) == Times(parseInt(query["expires_at"]), 1000)

\* mutant: the expiry in ms compared with the clock in seconds
BootstrapExpiredSeconds(expiresAt, t) == Lt(expiresAt, Num(t \div 1000))

\* expiresAt < Date.now()
BootstrapExpired(expiresAt, t) == Lt(expiresAt, Num(t))

\* mutant: the ceiling used whatever the expiry
MaxAgeCeiling(expiresAt, t) ==
    IF expiresAt.nan THEN NaN ELSE Num(SESSION_MAX_AGE)

\* mutant: the 24 hour ceiling left out
MaxAgeUncapped(expiresAt, t) == Minus(expiresAt, Num(t))

\* Math.min(expiresAt - Date.now(), SESSION_MAX_AGE)
MaxAge(expiresAt, t) == MathMin(Minus(expiresAt, Num(t)), Num(SESSION_MAX_AGE))

\* mutant: only the leading '/' is required
safePathSlashOnly(path) ==
    IF path # <<>> /\ StartsWith(path, <<"/">>) THEN path ELSE <<"/">>

\* mutant: the path used as it comes (req.path || '/')
safePathUnchecked(path) == IF path # <<>> THEN path ELSE <<"/">>

\* req.path && req.path.startsWith('/') && !req.path.startsWith('//') ? req.path : '/'
safePath(path) ==
    IF path # <<>> /\ StartsWith(path, <<"/">>) /\ ~StartsWith(path, <<"/", "/">>)
    THEN path ELSE <<"/">>

\* mutant: the cached expiry left in seconds
CookieExpiresAtSeconds(cookies) ==
    parseInt(OrElse(cookies, "studio_expires", <<"0">>))

\* parseInt(req.cookies['studio_expires'] || '0') * 1000
CookieExpiresAt(cookies) ==
    Times(parseInt(OrElse(cookies, "studio_expires", <<"0">>)), 1000)

\* mutant: && in place of ||
MissingSessionBoth(cookies) ==
    Falsy(cookies, "studio_token") /\ Falsy(cookies, "studio_refresh")

\* !token || !refreshToken
MissingSession(cookies) ==
    Falsy(cookies, "studio_token") \/ Falsy(cookies, "studio_refresh")

\* mutant: the comparison turned around
StillValidFlipped(expiresAt, t) == Lt(expiresAt, Num(t + REFRESH_BUFFER))

\* mutant: the refresh buffer left out
StillValidNoBuffer(expiresAt, t) == Gt(expiresAt, Num(t))

\* expiresAt > Date.now() + REFRESH_BUFFER
StillValid(expiresAt, t) == Gt(expiresAt, Num(t + REFRESH_BUFFER))

\* mutant: the error member ignored
RefreshFailedNoError(answer) == ~answer.hasSession

\* error || !data.session
RefreshFailed(answer) == answer.error \/ ~answer.hasSession

----------------------------------------------------------------------------
(* The middleware, in its two synchronous runs *)

\* A session write: res.cookie throws on a maxAge that is NaN, before any
\* header is appended
WriteSession(base, token, refresh, expires, maxAge, t) ==
    IF maxAge.nan THEN Threw
    ELSE [base EXCEPT !.setCookie = SessionCookies(token, refresh, expires, maxAge.v),
                      !.wroteAt = t]

\* mutant: the bypass is tested after the bootstrap block instead of first
GateEnterBypassLate(r, t, d) ==
    IF IsBootstrap(r.query) THEN
        LET expiresAt == BootstrapExpiresAt(r.query) IN
        IF BootstrapExpired(expiresAt, t)
        THEN [await |-> FALSE, res |-> Redirect(ERP_URL), elapsed |-> 0]
        ELSE [await |-> FALSE,
              res |-> WriteSession(Redirect(safePath(r.path)),
                                   r.query["token"], r.query["refresh_token"],
                                   r.query["expires_at"], MaxAge(expiresAt, t + d), t + d),
              elapsed |-> d]
    ELSE IF BYPASS_AUTH THEN [await |-> FALSE, res |-> PassOn, elapsed |-> 0]
    ELSE IF MissingSession(r.cookies)
    THEN [await |-> FALSE, res |-> Redirect(ERP_URL), elapsed |-> 0]
    ELSE IF StillValid(CookieExpiresAt(r.cookies), t)
    THEN [await |-> FALSE, res |-> PassOn, elapsed |-> 0]
    ELSE IF proc.supabase = "null"
    THEN [await |-> FALSE, res |-> Threw, elapsed |-> 0]
    ELSE [await |-> TRUE, res |-> NoRes, elapsed |-> 0]

\* mutant: the session cookies are looked at before the bootstrap triple
GateEnterSessionFirst(r, t, d) ==
    IF BYPASS_AUTH THEN [await |-> FALSE, res |-> PassOn, elapsed |-> 0]
    ELSE IF ~MissingSession(r.cookies) /\ StillValid(CookieExpiresAt(r.cookies), t)
    THEN [await |-> FALSE, res |-> PassOn, elapsed |-> 0]
    ELSE IF IsBootstrap(r.query) THEN
        LET expiresAt == BootstrapExpiresAt(r.query) IN
        IF BootstrapExpired(expiresAt, t)
        THEN [await |-> FALSE, res |-> Redirect(ERP_URL), elapsed |-> 0]
        ELSE [await |-> FALSE,
              res |-> WriteSession(Redirect(safePath(r.path)),
                                   r.query["token"], r.query["refresh_token"],
                                   r.query["expires_at"], MaxAge(expiresAt, t + d), t + d),
              elapsed |-> d]
    ELSE IF MissingSession(r.cookies)
    THEN [await |-> FALSE, res |-> Redirect(ERP_URL), elapsed |-> 0]
    ELSE IF proc.supabase = "null"
    THEN [await |-> FALSE, res |-> Threw, elapsed |-> 0]
    ELSE [await |-> TRUE, res |-> NoRes, elapsed |-> 0]

\* mutant: a request that needs a refresh while another one is being
\* refreshed is passed on instead of calling setSession itself
GateEnterLocked(r, t, d) ==
    IF BYPASS_AUTH THEN [await |-> FALSE, res |-> PassOn, elapsed |-> 0]
    ELSE IF IsBootstrap(r.query) THEN
        LET expiresAt == BootstrapExpiresAt(r.query) IN
        IF BootstrapExpired(expiresAt, t)
        THEN [await |-> FALSE, res |-> Redirect(ERP_URL), elapsed |-> 0]
        ELSE [await |-> FALSE,
              res |-> WriteSession(Redirect(safePath(r.path)),
                                   r.query["token"], r.query["refresh_token"],
                                   r.query["expires_at"], MaxAge(expiresAt, t + d), t + d),
              elapsed |-> d]
    ELSE IF MissingSession(r.cookies)
    THEN [await |-> FALSE, res |-> Redirect(ERP_URL), elapsed |-> 0]
    ELSE IF StillValid(CookieExpiresAt(r.cookies), t) \/ pc = "awaiting"
    THEN [await |-> FALSE, res |-> PassOn, elapsed |-> 0]
    ELSE IF proc.supabase = "null"
    THEN [await |-> FALSE, res |-> Threw, elapsed |-> 0]
    ELSE [await |-> TRUE, res |-> NoRes, elapsed |-> 0]

\* From the entry of the handler to its return or to the await.  t is the
\* first Date.now() of the run, d the time to the second one.  supabase!.auth
\* on a null client is a TypeError, before any call is made.
\* Result: await, whether setSession was called; res, the response; elapsed,
\* the time the run took on the clock
GateEnter(r, t, d) ==
    IF BYPASS_AUTH THEN [await |-> FALSE, res |-> PassOn, elapsed |-> 0]
    ELSE IF IsBootstrap(r.query) THEN
        LET expiresAt == BootstrapExpiresAt(r.query) IN
        IF BootstrapExpired(expiresAt, t)
        THEN [await |-> FALSE, res |-> Redirect(ERP_URL), elapsed |-> 0]
        ELSE [await |-> FALSE,
              res |-> WriteSession(Redirect(safePath(r.path)),
                                   r.query["token"], r.query["refresh_token"],
                                   r.query["expires_at"], MaxAge(expiresAt, t + d), t + d),
              elapsed |-> d]
    ELSE IF MissingSession(r.cookies)
    THEN [await |-> FALSE, res |-> Redirect(ERP_URL), elapsed |-> 0]
    ELSE IF StillValid(CookieExpiresAt(r.cookies), t)
    THEN [await |-> FALSE, res |-> PassOn, elapsed |-> 0]
    ELSE IF proc.supabase = "null"
    THEN [await |-> FALSE, res |-> Threw, elapsed |-> 0]
    ELSE [await |-> TRUE, res |-> NoRes, elapsed |-> 0]

\* From the resumption after await setSession to the return; t is Date.now()
GateResume(answer, t) ==
    IF answer.threw THEN Threw
    ELSE IF RefreshFailed(answer)
    THEN [Redirect(ERP_URL) EXCEPT !.cleared = ClearedCookies]
    ELSE LET newExpiresAt == answer.session.expires_at IN
         WriteSession(PassOn, answer.session.access_token, answer.session.refresh_token,
                      toString(newExpiresAt), MaxAge(Times(Num(newExpiresAt), 1000), t), t)

----------------------------------------------------------------------------
(* The inputs the environment chooses from *)

\* expires_at strings a client may send: unparsable, already past at T0, equal
\* to T0, T0 + REFRESH_BUFFER, one second beyond it (followed by a non-digit),
\* and beyond T0 + SESSION_MAX_AGE
ExpStrs ==
    { <<"x">>, <<"5", "9", "9">>, <<"6", "0", "0">>, <<"9", "0", "0">>,
      <<"9", "0", "1", "x">>, <<"8", "7", "0", "0", "1">> }

ValuesOf(k) ==
    CASE k \in {"token", "studio_token"} -> {<<"T">>}
      [] k \in {"refresh_token", "studio_refresh"} -> {<<"R">>}
      [] k \in {"expires_at", "studio_expires"} -> {<<>>} \cup ExpStrs

\* a member is absent, or present with one of its values
Absent == <<FALSE, <<>> >>
Options(k) == {Absent} \cup {<<TRUE, v>> : v \in ValuesOf(k)}

\* every object with members among k1, k2, k3
Maps(k1, k2, k3) ==
    { [k \in {n \in {k1, k2, k3} :
                 \/ n = k1 /\ o1[1]
                 \/ n = k2 /\ o2[1]
                 \/ n = k3 /\ o3[1]} |->
          IF k = k1 THEN o1[2] ELSE IF k = k2 THEN o2[2] ELSE o3[2]] :
      o1 \in Options(k1), o2 \in Options(k2), o3 \in Options(k3) }

Queries == Maps("token", "refresh_token", "expires_at")
CookieSets == Maps("studio_token", "studio_refresh", "studio_expires")
Paths == { <<>>, <<"/", "s">>, <<"/", "/", "e">>, <<"h", ":", "/", "/", "e">> }

\* the paths of the redirect-safety examples
StudioAbc == <<"/", "s", "t", "u", "d", "i", "o", "/", "a", "b", "c">>
SlashSlashEvil == <<"/", "/", "e", "v", "i", "l", ".", "c", "o", "m">>
HttpEvil == <<"h", "t", "t", "p", ":", "/", "/", "e", "v", "i", "l", ".", "c", "o", "m">>

\* every string of up to MaxPathLen characters over a small alphabet, and the examples
PathAlphabet == {"/", ":", "e"}
ProbePaths ==
    UNION { [1..n -> PathAlphabet] : n \in 0..MaxPathLen }
    \cup {StudioAbc, SlashSlashEvil, HttpEvil}

\* what await supabase.auth.setSession(...) can produce
NewExpiries == {599, 4200, 90000}
NullSession == [access_token |-> <<>>, refresh_token |-> <<>>, expires_at |-> 0]
Sessions ==
    { [access_token |-> <<"U">>, refresh_token |-> <<"S">>, expires_at |-> e] : e \in NewExpiries }
Answers ==
    { [threw |-> TRUE, error |-> FALSE, hasSession |-> FALSE, session |-> NullSession] }
    \cup { [threw |-> FALSE, error |-> e, hasSession |-> FALSE, session |-> NullSession] :
             e \in BOOLEAN }
    \cup { [threw |-> FALSE, error |-> e, hasSession |-> TRUE, session |-> s] :
             e \in BOOLEAN, s \in Sessions }

\* what the setSession call of a second, concurrent request can produce: the
\* provider hands out other credentials, or the same ones once more
PeerSessions ==
    { [access_token |-> <<"V">>, refresh_token |-> <<"W">>, expires_at |-> e] : e \in NewExpiries }
PeerAnswers ==
    { [threw |-> TRUE, error |-> FALSE, hasSession |-> FALSE, session |-> NullSession],
      [threw |-> FALSE, error |-> TRUE, hasSession |-> FALSE, session |-> NullSession] }
    \cup { [threw |-> FALSE, error |-> FALSE, hasSession |-> TRUE, session |-> s] :
             s \in PeerSessions \cup Sessions }

----------------------------------------------------------------------------
(* The client's cookie store *)

NoDeadline == 0 - 1     \* a cookie the client put there itself

\* the Max-Age attribute Express derives from the maxAge option: whole seconds
MaxAgeSeconds(maxAge) == maxAge \div 1000

\* the store after the client has processed the Set-Cookie headers of r at time t
ApplyResponse(j, r, t) ==
    IF r.kind = "hang" THEN j
    ELSE LET live == {k \in DOMAIN r.setCookie : MaxAgeSeconds(r.setCookie[k].maxAge) > 0}
             dead == (DOMAIN r.setCookie \ live) \cup r.cleared
             names == (DOMAIN j \ dead) \cup live
         IN  [k \in names |->
                IF k \in live
                THEN [value |-> r.setCookie[k].value,
                      deadline |-> t + 1000 * MaxAgeSeconds(r.setCookie[k].maxAge)]
                ELSE j[k]]

\* the store at time t: cookies whose lifetime has elapsed are gone
Unexpired(j, t) ==
    [k \in {n \in DOMAIN j : j[n].deadline = NoDeadline \/ j[n].deadline > t} |-> j[k]]

\* the Cookie header a browser sends from its store
CookiesOf(j) == [k \in DOMAIN j |-> j[k].value]

\* the store of a client that holds exactly the cookies c
JarOf(c) == [k \in DOMAIN c |-> [value |-> c[k], deadline |-> NoDeadline]]

----------------------------------------------------------------------------
(* The state machine *)

\* at: Date.now() when the handler is entered
NoReq ==
    [path |-> <<>>, query |-> EmptyMap, cookies |-> EmptyMap, browser |-> FALSE, at |-> 0]

NoReply == [threw |-> FALSE, error |-> FALSE, hasSession |-> FALSE, session |-> NullSession]
NotCalled == [NoReply EXCEPT !.session.expires_at = 0 - 1]

\* mutant: the client created from whatever the environment holds, no exit
StartUpUnchecked(bypass, url, key) ==
    [status |-> "serving", exitCode |-> 0 - 1,
     SUPABASE_URL |-> url, SUPABASE_PUBLISHABLE_KEY |-> key,
     supabase |-> IF ~bypass /\ url /\ key THEN "client" ELSE "null",
     ws |-> FALSE]

\* The module's top-level statements up to app.listen: url and key tell
\* whether process.env.SUPABASE_URL and SUPABASE_PUBLISHABLE_KEY are set
\* (and not empty); ws, whether the proxy has subscribed to the server's
\* 'upgrade' event, which it has not before the first request
StartUp(bypass, url, key) ==
    IF ~bypass /\ (~url \/ ~key)
    THEN [status |-> "exited", exitCode |-> 1,
          SUPABASE_URL |-> url, SUPABASE_PUBLISHABLE_KEY |-> key,
          supabase |-> "null", ws |-> FALSE]
    ELSE [status |-> "serving", exitCode |-> 0 - 1,
          SUPABASE_URL |-> url, SUPABASE_PUBLISHABLE_KEY |-> key,
          supabase |-> IF bypass THEN "null" ELSE "client", ws |-> FALSE]

\* the process before its first statement has run
Starting(url, key) ==
    [status |-> "starting", exitCode |-> 0 - 1,
     SUPABASE_URL |-> url, SUPABASE_PUBLISHABLE_KEY |-> key,
     supabase |-> "null", ws |-> FALSE]

\* the second slot, with the fields of the first
NoPeer == [pc |-> "idle", req |-> NoReq, res |-> NoRes, calls |-> 0, reply |-> NotCalled]

\* bootAt: arrival of the browser's latest bootstrap that wrote a session;
\* activeAt: its latest response after which it held studio_token and
\* studio_refresh; -1 when there is none
NeverSeen == [bootAt |-> 0 - 1, activeAt |-> 0 - 1]

\* seen after the browser has processed response rs to request r into store j
SeenAfter(s, r, rs, j, t) ==
    [bootAt |-> IF rs.kind = "redirect" /\ rs.setCookie # EmptyMap THEN r.at ELSE s.bootAt,
     activeAt |-> IF {"studio_token", "studio_refresh"} \subseteq DOMAIN j THEN t ELSE 0 - 1]

----------------------------------------------------------------------------
(* The downloads page *)

\* what the out/ directory may hold: two renders and a file that is none
Videos == {"a.mp4", "b.gif"}
Files == Videos \cup {"c.txt"}

\* the names GET /api/renders lists: the files with a video extension
Listing(dir) == dir \cap Videos

\* how a fetch of /api/renders can end for the script
FetchOutcomes == {"json", "redirected", "error", "notjson", "failed"}

NoFetch == [outcome |-> "none", files |-> {}]
Slots == 1..MaxFetches

\* the script's state when the page has loaded
PageLoaded ==
    [knownFiles |-> {},
     autoDownload |-> TRUE,
     fetches |-> [i \in Slots |-> NoFetch],
     downloaded |-> [f \in Files |-> 0]]

\* data.files.filter(f => !knownFiles.has(f.name))
newFiles(p, data) == data.files \ p.knownFiles

\* triggerDownload: the browser downloads the file once more
triggerDownload(d, f) == [d EXCEPT ![f] = @ + 1]

\* checkRenders from the point its fetch has completed: the page after it
checkRenders(p, data) ==
    IF data.outcome # "json"
    THEN p
    ELSE [p EXCEPT
            !.downloaded =
                IF p.autoDownload /\ newFiles(p, data) # {}
                THEN [f \in Files |-> IF f \in newFiles(p, data)
                                      THEN triggerDownload(p.downloaded, f)[f]
                                      ELSE p.downloaded[f]]
                ELSE p.downloaded,
            !.knownFiles = data.files]

Init ==
    /\ BYPASS_AUTH \in BOOLEAN
    /\ production \in BOOLEAN
    /\ now = T0
    /\ ticks = 0
    /\ jar = EmptyMap
    /\ req = NoReq
    /\ pc = "idle"
    /\ res = NoRes
    /\ calls = 0
    /\ reply = NotCalled
    /\ peer = NoPeer
    /\ seen = NeverSeen
    /\ proc = StartUp(BYPASS_AUTH, TRUE, TRUE)
    /\ outDir = {}
    /\ page = PageLoaded

\* the response actually produced when the handler ended with r
Produced(r) ==
    IF r.kind = "throw" THEN {[r EXCEPT !.kind = k] : k \in ThrowOutcomes} ELSE {r}

\* the paths of the routes: /api/renders, /downloads, a file of out/ and a
\* file that out/ does not hold
ApiRenders == <<"/", "a", "p", "i", "/", "r", "e", "n", "d", "e", "r", "s">>
Downloads == <<"/", "d", "o", "w", "n", "l", "o", "a", "d", "s">>
OutFile == <<"/", "o", "u", "t", "/", "v">>
OutMissing == <<"/", "o", "u", "t", "/", "w">>
RoutePaths == {ApiRenders, Downloads, OutFile, OutMissing, <<"/", "s">>}

\* the middleware and routes of the app, in the order they are registered
Stack == <<"cookieParser", "gate", "/api/renders", "/downloads", "/out", "proxy">>

\* the layer answers a request on path (express.static passes a file it does
\* not find on to the next layer)
Matches(layer, path) ==
    CASE layer = "/api/renders" -> path = ApiRenders
      [] layer = "/downloads" -> path = Downloads
      [] layer = "/out" -> StartsWith(path, <<"/", "o", "u", "t", "/">>) /\ path = OutFile
      [] layer = "proxy" -> TRUE
      [] OTHER -> FALSE

Content(layer) ==
    CASE layer = "/api/renders" -> "listing"
      [] layer = "/downloads" -> "page"
      [] layer = "/out" -> "file"
      [] layer = "proxy" -> "studio"
      [] OTHER -> "none"

\* what the layers from the i-th on send for a request on path; allowed:
\* whether the gate called next()
RECURSIVE Walk(_, _, _)
Walk(i, path, allowed) ==
    IF i > Len(Stack) THEN "none"
    ELSE IF Stack[i] = "gate"
         THEN IF allowed THEN Walk(i + 1, path, allowed) ELSE "none"
         ELSE IF Matches(Stack[i], path) THEN Content(Stack[i])
              ELSE Walk(i + 1, path, allowed)

\* the response to request r once the layers behind the gate have run
Respond(r, rs) ==
    { [x EXCEPT !.content = Walk(1, r.path, x.kind = "next")] : x \in Produced(rs) }

\* createProxyMiddleware({ ws: true }): the first request the proxy handles
\* makes it listen to the server's 'upgrade' event
Subscribed(p, rs) == [p EXCEPT !.ws = p.ws \/ rs.content = "studio"]

\* app.use(async (req, res, next) => ...) runs on r up to its return or its await
Handle(r, d) ==
    LET g == GateEnter(r, now, d) IN
    /\ req' = r
    /\ res' \in Respond(r, g.res)
    /\ proc' = Subscribed(proc, res')
    /\ pc' = IF g.await THEN "awaiting" ELSE "responded"
    /\ calls' = IF g.await THEN 1 ELSE 0
    /\ g.elapsed = d
    /\ d > 0 => ticks < MaxTicks
    /\ now' = now + d
    /\ ticks' = IF d > 0 THEN ticks + 1 ELSE ticks
    /\ UNCHANGED <<BYPASS_AUTH, production, outDir, page, jar, reply, peer, seen>>

\* a client sends a request with cookies of its own choosing
CraftedRequest ==
    /\ proc.status = "serving"
    /\ pc = "idle"
    /\ \E p \in Paths, q \in Queries, c \in CookieSets, d \in Drifts :
        Handle([path |-> p, query |-> q, cookies |-> c, browser |-> FALSE, at |-> now], d)

\* a browser sends a request with the cookies of its store
BrowserRequest ==
    /\ proc.status = "serving"
    /\ pc = "idle"
    /\ \E p \in Paths, q \in Queries, d \in Drifts :
        Handle([path |-> p, query |-> q, cookies |-> CookiesOf(jar), browser |-> TRUE,
                at |-> now], d)

\* a client without cookies sends a request on any of the probe paths
PathProbe ==
    /\ proc.status = "serving"
    /\ pc = "idle"
    /\ \E p \in ProbePaths, q \in Queries, d \in Drifts :
        Handle([path |-> p, query |-> q, cookies |-> EmptyMap, browser |-> FALSE, at |-> now], d)

\* setSession settles and the handler runs to its return
ProviderAnswer ==
    /\ pc = "awaiting"
    /\ \E answer \in Answers :
        /\ res' \in Respond(req, GateResume(answer, now))
        /\ proc' = Subscribed(proc, res')
        /\ reply' = answer
        /\ pc' = "responded"
        /\ UNCHANGED <<BYPASS_AUTH, production, outDir, page, now, ticks, jar, req, calls, peer, seen>>

\* the client receives the response; a browser processes its Set-Cookie
\* headers into its store
Deliver ==
    /\ pc = "responded"
    /\ jar' = IF req.browser THEN ApplyResponse(jar, res, now) ELSE jar
    /\ seen' = IF req.browser THEN SeenAfter(seen, req, res, jar', now) ELSE seen
    /\ pc' = "idle"
    /\ req' = NoReq
    /\ res' = NoRes
    /\ calls' = 0
    /\ reply' = NotCalled
    /\ UNCHANGED <<BYPASS_AUTH, production, outDir, page, proc, now, ticks, peer>>

\* time passes, between requests or while setSession is awaited; the store
\* drops the cookies whose Max-Age has elapsed.  (A response is delivered at
\* the instant it is produced: network latency is not modelled.)
Tick ==
    /\ ticks < MaxTicks
    /\ pc \in {"idle", "awaiting"}
    /\ peer.pc \in {"idle", "awaiting"}
    /\ \E d \in Deltas :
        /\ now' = now + d
        /\ ticks' = ticks + 1
        /\ jar' = Unexpired(jar, now + d)
        /\ UNCHANGED <<BYPASS_AUTH, production, outDir, page, proc, req, pc, res, calls, reply, peer, seen>>

\* the gate in front of any client
Next == CraftedRequest \/ ProviderAnswer \/ Deliver \/ Tick
Spec == Init /\ [][Next]_vars

\* the gate in front of a browser, whose cookies are those the gate gave it
NextBrowser == BrowserRequest \/ ProviderAnswer \/ Deliver \/ Tick
SpecBrowser == Init /\ [][NextBrowser]_vars

\* credentials the identity provider issued: handed over by the ERP (T, R) or
\* returned by setSession (U, S); any other value was made up by the client
Issued ==
    { <<"T">>, <<"R">> }
    \cup UNION { {s.access_token, s.refresh_token} : s \in Sessions \cup PeerSessions }
ForgedToken == <<"F">>
ForgedRefresh == <<"G">>

\* a bootstrap link whose credentials the client made up
ForgedQueries ==
    { [token |-> ForgedToken, refresh_token |-> ForgedRefresh, expires_at |-> e] : e \in ExpStrs }

\* a browser that was never given credentials opens the studio, by a plain
\* link or by a bootstrap link it wrote itself
ForgedRequest ==
    /\ proc.status = "serving"
    /\ pc = "idle"
    /\ \E p \in Paths, q \in {EmptyMap} \cup ForgedQueries, d \in Drifts :
        Handle([path |-> p, query |-> q, cookies |-> CookiesOf(jar), browser |-> TRUE, at |-> now], d)

\* setSession is given credentials the provider never issued: it rejects them
ProviderRejects ==
    /\ pc = "awaiting"
    /\ \E a \in {x \in Answers : x.threw \/ x.error \/ ~x.hasSession} :
        /\ res' \in Respond(req, GateResume(a, now))
        /\ reply' = a
    /\ proc' = Subscribed(proc, res')
    /\ pc' = "responded"
    /\ UNCHANGED <<BYPASS_AUTH, production, outDir, page, now, ticks, jar, req, calls, peer, seen>>

NextForged == ForgedRequest \/ ProviderRejects \/ Deliver \/ Tick
SpecForged == Init /\ [][NextForged]_vars

\* a browser opens a page of the studio, by a plain link or by the ERP's
\* bootstrap link, while no other request of it is in flight
PageRequest ==
    /\ proc.status = "serving"
    /\ pc = "idle"
    /\ peer.pc = "idle"
    /\ \E q \in {EmptyMap} \cup
                { [token |-> <<"T">>, refresh_token |-> <<"R">>, expires_at |-> e] : e \in ExpStrs },
          d \in Drifts :
        Handle([path |-> <<"/", "s">>, query |-> q, cookies |-> CookiesOf(jar),
                browser |-> TRUE, at |-> now], d)

\* while that request is in flight the browser sends a second one, which a
\* second run of the handler takes up to its return or its await
PeerRequest ==
    /\ proc.status = "serving"
    /\ pc # "idle"
    /\ peer.pc = "idle"
    /\ \E q \in {EmptyMap} \cup
                { [token |-> <<"T">>, refresh_token |-> <<"R">>, expires_at |-> e] :
                    e \in { <<"5", "9", "9">>, <<"9", "0", "1", "x">> } } :
        LET r == [path |-> <<"/", "s">>, query |-> q, cookies |-> CookiesOf(jar),
                  browser |-> TRUE, at |-> now]
            g == GateEnter(r, now, 0)
        IN  \E rs \in Respond(r, g.res) :
              /\ peer' = [pc |-> IF g.await THEN "awaiting" ELSE "responded",
                          req |-> r,
                          res |-> rs,
                          calls |-> IF g.await THEN 1 ELSE 0,
                          reply |-> NotCalled]
              /\ proc' = Subscribed(proc, rs)
    /\ UNCHANGED <<BYPASS_AUTH, production, outDir, page, now, ticks, jar, req, pc, res, calls, reply, seen>>

\* the setSession of the second request settles and its handler runs to its return
PeerAnswer ==
    /\ peer.pc = "awaiting"
    /\ \E answer \in PeerAnswers :
        \E rs \in Respond(peer.req, GateResume(answer, now)) :
            /\ peer' = [peer EXCEPT !.pc = "responded", !.res = rs, !.reply = answer]
            /\ proc' = Subscribed(proc, rs)
    /\ UNCHANGED <<BYPASS_AUTH, production, outDir, page, now, ticks, jar, req, pc, res, calls, reply, seen>>

\* the browser receives the response to the second request
PeerDeliver ==
    /\ peer.pc = "responded"
    /\ jar' = ApplyResponse(jar, peer.res, now)
    /\ seen' = SeenAfter(seen, peer.req, peer.res, jar', now)
    /\ peer' = NoPeer
    /\ UNCHANGED <<BYPASS_AUTH, production, outDir, page, proc, now, ticks, req, pc, res, calls, reply>>

\* the gate in front of a browser that sends two requests at a time
NextRace ==
    \/ PageRequest \/ ProviderAnswer \/ Deliver
    \/ PeerRequest \/ PeerAnswer \/ PeerDeliver
    \/ Tick
SpecRace == Init /\ [][NextRace]_vars

\* the process as it is launched: the environment may lack the provider's
\* URL or key
InitStartup ==
    /\ BYPASS_AUTH \in BOOLEAN
    /\ production \in BOOLEAN
    /\ now = T0
    /\ ticks = 0
    /\ jar = EmptyMap
    /\ req = NoReq
    /\ pc = "idle"
    /\ res = NoRes
    /\ calls = 0
    /\ reply = NotCalled
    /\ peer = NoPeer
    /\ seen = NeverSeen
    /\ \E url \in BOOLEAN, key \in BOOLEAN : proc = Starting(url, key)
    /\ outDir = {}
    /\ page = PageLoaded

\* the top-level statements run: the process exits or starts to listen
Launch ==
    /\ proc.status = "starting"
    /\ proc' = StartUp(BYPASS_AUTH, proc.SUPABASE_URL, proc.SUPABASE_PUBLISHABLE_KEY)
    /\ UNCHANGED <<BYPASS_AUTH, production, outDir, page, now, ticks, jar, req, pc, res, calls, reply, peer, seen>>

\* the server from its launch on, in front of a browser
NextStartup == Launch \/ PageRequest \/ ProviderAnswer \/ Deliver \/ Tick
SpecStartup == InitStartup /\ [][NextStartup]_vars

\* a browser requests one of the routes, by a plain link or a bootstrap link
RouteRequest ==
    /\ proc.status = "serving"
    /\ pc = "idle"
    /\ \E p \in RoutePaths,
          q \in {EmptyMap, [token |-> <<"T">>, refresh_token |-> <<"R">>,
                            expires_at |-> <<"9", "0", "1", "x">>]},
          d \in Drifts :
        Handle([path |-> p, query |-> q, cookies |-> CookiesOf(jar), browser |-> TRUE,
                at |-> now], d)

\* a client asks for a WebSocket (GET with Upgrade: websocket).  Node hands
\* such a request to the server's 'upgrade' listeners and not to the Express
\* app: no middleware runs.  Once the proxy listens it forwards the socket
\* to the studio; before that the socket is closed.
UpgradeRequest ==
    /\ proc.status = "serving"
    /\ pc = "idle"
    /\ \E c \in {EmptyMap, CookiesOf(jar)} :
        req' = [path |-> <<"/", "s">>, query |-> EmptyMap, cookies |-> c, browser |-> TRUE,
                at |-> now]
    /\ res' = [NoRes EXCEPT !.kind = "upgrade",
                            !.content = IF proc.ws THEN "studio" ELSE "none"]
    /\ pc' = "responded"
    /\ UNCHANGED <<BYPASS_AUTH, production, outDir, page, proc, now, ticks, jar, calls, reply, peer, seen>>

\* the whole server in front of a browser
NextRoutes == RouteRequest \/ UpgradeRequest \/ ProviderAnswer \/ Deliver \/ Tick
SpecRoutes == Init /\ [][NextRoutes]_vars

\* the studio writes a file to out/ (the model follows files that stay)
Render ==
    /\ proc.status = "serving"
    /\ \E f \in Files \ outDir : outDir' = outDir \cup {f}
    /\ UNCHANGED <<BYPASS_AUTH, production, page, proc, now, ticks, jar, req, pc, res, calls,
                   reply, peer, seen>>

\* the user clicks the checkbox
ToggleAutoDownload ==
    /\ page' = [page EXCEPT !.autoDownload = ~page.autoDownload]
    /\ UNCHANGED <<BYPASS_AUTH, production, outDir, proc, now, ticks, jar, req, pc, res, calls,
                   reply, peer, seen>>

\* checkRenders is called, by the initial check or by the interval timer,
\* and sends its fetch; the server answers with the listing of that moment,
\* or the fetch ends in one of the other ways.  Nothing waits for the fetch
\* of an earlier call.
CheckRendersCalled ==
    /\ proc.status = "serving"
    /\ \E i \in Slots, o \in FetchOutcomes :
        /\ page.fetches[i] = NoFetch
        /\ page' = [page EXCEPT !.fetches[i] =
                        [outcome |-> o,
                         files |-> IF o = "json" THEN Listing(outDir) ELSE {}]]
    /\ UNCHANGED <<BYPASS_AUTH, production, outDir, proc, now, ticks, jar, req, pc, res, calls,
                   reply, peer, seen>>

\* the fetch of one call completes and the call runs to its end; fetches
\* complete in any order
CheckRendersResumed ==
    /\ \E i \in Slots :
        /\ page.fetches[i] # NoFetch
        /\ \A f \in Files : page.downloaded[f] < MaxDownloads
        /\ page' = [checkRenders(page, page.fetches[i]) EXCEPT !.fetches[i] = NoFetch]
    /\ UNCHANGED <<BYPASS_AUTH, production, outDir, proc, now, ticks, jar, req, pc, res, calls,
                   reply, peer, seen>>

\* the downloads page open in a browser while the studio renders
NextDownloads == Render \/ ToggleAutoDownload \/ CheckRendersCalled \/ CheckRendersResumed
SpecDownloads == Init /\ [][NextDownloads]_vars

\* the gate on requests of every path
NextPaths == PathProbe \/ Deliver
SpecPaths == Init /\ [][NextPaths]_vars

----------------------------------------------------------------------------
(* Vocabulary of the properties *)

\* obj has a non-empty member k
Has(obj, k) == k \in DOMAIN obj /\ obj[k] # <<>>

\* the query carries the complete bootstrap triple
HasTriple(q) == Has(q, "token") /\ Has(q, "refresh_token") /\ Has(q, "expires_at")

\* an expiry given in seconds as a string, in ms; NaN when missing or unparsable
ExpiryMs(obj, k) == IF Has(obj, k) THEN Times(parseInt(obj[k]), 1000) ELSE NaN

\* the request carries both session cookies and no bootstrap triple
SessionRequest ==
    /\ ~HasTriple(req.query)
    /\ Has(req.cookies, "studio_token")
    /\ Has(req.cookies, "studio_refresh")

\* the cached expiry of the request is more than 5 minutes after its arrival
FarFromExpiry == Gt(ExpiryMs(req.cookies, "studio_expires"), Num(req.at + 5 * 60 * 1000))

\* the cookies of a client that sent req and has processed res
ClientCookiesAfter == CookiesOf(ApplyResponse(JarOf(req.cookies), res, now))

\* a path on the studio's own origin, without a query string
SameOriginPath(l) ==
    /\ l # <<>>
    /\ l[1] = "/"
    /\ Len(l) >= 2 => l[2] # "/"
    /\ \A i \in 1..Len(l) : l[i] # "?"

----------------------------------------------------------------------------
(* Properties of the gate, one request at a time (Spec) *)

\* C1: with the bypass off, a request without the complete bootstrap triple
\* that lacks studio_token or studio_refresh is redirected to ERP_URL, is not
\* passed on, causes no setSession call and gets no cookie set
C1_NoSessionRedirects ==
    ( /\ pc # "idle"
      /\ ~BYPASS_AUTH
      /\ ~HasTriple(req.query)
      /\ ~Has(req.cookies, "studio_token") \/ ~Has(req.cookies, "studio_refresh") )
    => /\ pc = "responded"
       /\ res.kind = "redirect"
       /\ res.location = ERP_URL
       /\ res.setCookie = EmptyMap
       /\ calls = 0

\* a request with studio_token and a partial query but without studio_refresh
\* has been redirected
C1_Witness ==
    /\ pc = "responded"
    /\ ~BYPASS_AUTH
    /\ Has(req.query, "token") /\ ~HasTriple(req.query)
    /\ Has(req.cookies, "studio_token") /\ ~Has(req.cookies, "studio_refresh")
    /\ res.kind = "redirect"

\* C2: with the bypass off, a request without the triple whose two session
\* cookies are present and whose studio_expires * 1000 exceeds now + 5 min is
\* passed on with no setSession call and no cookie written or cleared, and
\* the client's cookies are afterwards what they were
C2_LiveSessionPasses ==
    ( /\ pc # "idle"
      /\ ~BYPASS_AUTH
      /\ SessionRequest
      /\ FarFromExpiry )
    => /\ pc = "responded"
       /\ res.kind = "next"
       /\ res.setCookie = EmptyMap
       /\ res.cleared = {}
       /\ calls = 0
       /\ ClientCookiesAfter = req.cookies

\* a live session whose studio_expires has trailing characters was passed on
C2_Witness ==
    /\ pc = "responded"
    /\ ~BYPASS_AUTH
    /\ SessionRequest
    /\ FarFromExpiry
    /\ req.cookies["studio_expires"] = <<"9", "0", "1", "x">>
    /\ res.kind = "next"

\* C3: with the bypass off, a request with the complete triple whose
\* expires_at is in the future gets exactly the three cookies, with the
\* query's values, each HttpOnly and with a Max-Age of at most 24 hours; no
\* setSession call is made, the request is not passed on and the redirect
\* goes to a same-origin path without query string
C3_BootstrapWritesSession ==
    ( /\ pc # "idle"
      /\ ~BYPASS_AUTH
      /\ HasTriple(req.query)
      /\ Gt(ExpiryMs(req.query, "expires_at"), Num(req.at)) )
    => /\ pc = "responded"
       /\ res.kind = "redirect"
       /\ SameOriginPath(res.location)
       /\ DOMAIN res.setCookie = {"studio_token", "studio_refresh", "studio_expires"}
       /\ res.setCookie["studio_token"].value = req.query["token"]
       /\ res.setCookie["studio_refresh"].value = req.query["refresh_token"]
       /\ res.setCookie["studio_expires"].value = req.query["expires_at"]
       /\ \A k \in DOMAIN res.setCookie :
            /\ res.setCookie[k].httpOnly
            /\ res.setCookie[k].maxAge <= 24 * 60 * 60 * 1000
       /\ res.cleared = {}
       /\ calls = 0

\* a bootstrap whose expiry lies more than 24 hours ahead, on a path that is
\* not safe to redirect to, was answered with the capped Max-Age
C3_Witness ==
    /\ pc = "responded"
    /\ ~BYPASS_AUTH
    /\ HasTriple(req.query)
    /\ Gt(ExpiryMs(req.query, "expires_at"), Num(req.at + 24 * 60 * 60 * 1000))
    /\ req.path = <<"/", "/", "e">>
    /\ res.kind = "redirect"
    /\ DOMAIN res.setCookie = CookieNames
    /\ res.setCookie["studio_token"].maxAge = 24 * 60 * 60 * 1000

\* C4: with the bypass off, a request with the complete triple whose
\* expires_at is in the past gets no cookie written and none cleared (the
\* client's cookies stay what they were), causes no setSession call and is
\* redirected to ERP_URL
C4_ExpiredBootstrapRejected ==
    ( /\ pc # "idle"
      /\ ~BYPASS_AUTH
      /\ HasTriple(req.query)
      /\ Lt(ExpiryMs(req.query, "expires_at"), Num(req.at)) )
    => /\ pc = "responded"
       /\ res.kind = "redirect"
       /\ res.location = ERP_URL
       /\ res.setCookie = EmptyMap
       /\ res.cleared = {}
       /\ calls = 0
       /\ ClientCookiesAfter = req.cookies

\* an expired bootstrap sent along with a live session was redirected
C4_Witness ==
    /\ pc = "responded"
    /\ ~BYPASS_AUTH
    /\ HasTriple(req.query)
    /\ Lt(ExpiryMs(req.query, "expires_at"), Num(req.at))
    /\ Has(req.cookies, "studio_token") /\ Has(req.cookies, "studio_refresh")
    /\ FarFromExpiry
    /\ res.kind = "redirect"

\* setSession was called for req and gave a session without error
RefreshSucceeded ==
    pc = "responded" /\ calls = 1 /\ ~reply.threw /\ ~reply.error /\ reply.hasSession

\* setSession was called for req and gave an error or no session
RefreshRejected ==
    pc = "responded" /\ calls = 1 /\ ~reply.threw /\ (reply.error \/ ~reply.hasSession)

\* min(expiry - now, 24 hours), the expiry in seconds, the rest in ms
PolicyMaxAge(expirySeconds, t) ==
    LET left == expirySeconds * 1000 - t
    IN  IF left < 24 * 60 * 60 * 1000 THEN left ELSE 24 * 60 * 60 * 1000

\* C5: after a successful refresh the three cookies are rewritten with the
\* provider's access credential, refresh credential and expiry, the Max-Age
\* being min(expiry - now, 24 h) for studio_token and studio_expires and 24 h
\* for studio_refresh, and the request is passed on
C5_RefreshSuccessRewrites ==
    RefreshSucceeded
    => /\ res.kind = "next"
       /\ DOMAIN res.setCookie = {"studio_token", "studio_refresh", "studio_expires"}
       /\ res.setCookie["studio_token"].value = reply.session.access_token
       /\ res.setCookie["studio_refresh"].value = reply.session.refresh_token
       /\ parseInt(res.setCookie["studio_expires"].value) = Num(reply.session.expires_at)
       /\ res.setCookie["studio_token"].maxAge = PolicyMaxAge(reply.session.expires_at, now)
       /\ res.setCookie["studio_expires"].maxAge = PolicyMaxAge(reply.session.expires_at, now)
       /\ res.setCookie["studio_refresh"].maxAge = 24 * 60 * 60 * 1000
       /\ res.cleared = {}

\* a refresh succeeded with an expiry less than 24 hours ahead, some time
\* after the request came in
C5_Witness ==
    /\ RefreshSucceeded
    /\ now > req.at
    /\ res.kind = "next"
    /\ res.setCookie["studio_token"].maxAge > 0
    /\ res.setCookie["studio_token"].maxAge < 24 * 60 * 60 * 1000

\* C6: when setSession gives an error or no session, the three cookies are
\* cleared, nothing is written, and the request is redirected to ERP_URL and
\* not passed on: one response for both causes
C6_RefreshFailureClears ==
    RefreshRejected
    => /\ res.kind = "redirect"
       /\ res.location = ERP_URL
       /\ res.cleared = {"studio_token", "studio_refresh", "studio_expires"}
       /\ res.setCookie = EmptyMap

\* setSession gave neither an error nor a session, and the cookies were cleared
C6_Witness ==
    /\ RefreshRejected
    /\ ~reply.error
    /\ res.kind = "redirect"
    /\ res.cleared = CookieNames

\* C7: when setSession throws, the three cookies are cleared and the request
\* is redirected to ERP_URL
C7_ThrowClearsAndRedirects ==
    (pc = "responded" /\ calls = 1 /\ reply.threw)
    => /\ res.kind = "redirect"
       /\ res.location = ERP_URL
       /\ res.cleared = {"studio_token", "studio_refresh", "studio_expires"}

\* C8: setSession is called exactly once for a request with both session
\* cookies whose cached expiry is at or before now + 5 min (missing and
\* unparsable expiries included), also when the call fails, and is never
\* called for any other request
C8_RefreshExactlyOnce ==
    LET near == ~BYPASS_AUTH /\ SessionRequest /\ ~FarFromExpiry
    IN  /\ pc = "idle" => calls = 0
        /\ pc # "idle" => calls = (IF near THEN 1 ELSE 0)
        /\ pc = "awaiting" => near

\* a request whose cached expiry is exactly now + 5 min was refreshed once,
\* and the refresh failed
C8_Witness ==
    /\ pc = "responded"
    /\ SessionRequest
    /\ ExpiryMs(req.cookies, "studio_expires") = Num(req.at + 5 * 60 * 1000)
    /\ reply.error
    /\ calls = 1

----------------------------------------------------------------------------
(* Properties of a browser's cookie store (SpecBrowser) *)

\* C9, as claimed: in every state of the store the three session cookies are
\* all present or all absent
C9_AllOrNone ==
    DOMAIN jar \in { {}, {"studio_token", "studio_refresh", "studio_expires"} }

\* C9, as it holds: every response writes all three cookies or none and
\* clears all three or none; in the store studio_token and studio_expires
\* are present or absent together, and studio_refresh is present whenever
\* they are (it may remain alone once their shorter Max-Age has elapsed)
C9_TokenAndExpiresTogether ==
    /\ DOMAIN res.setCookie \in { {}, {"studio_token", "studio_refresh", "studio_expires"} }
    /\ res.cleared \in { {}, {"studio_token", "studio_refresh", "studio_expires"} }
    /\ "studio_token" \in DOMAIN jar <=> "studio_expires" \in DOMAIN jar
    /\ "studio_token" \in DOMAIN jar => "studio_refresh" \in DOMAIN jar

\* the store holds studio_refresh alone: the session is partially present
C9_Witness == DOMAIN jar = {"studio_refresh"}

----------------------------------------------------------------------------
(* Properties of the expiry of a written session (Spec) *)

\* C10: whenever the gate writes a session, the expiry it stores is strictly
\* later than the time of the write
C10_StoredExpiryInFuture ==
    (pc = "responded" /\ res.setCookie # EmptyMap)
    => Gt(ExpiryMs([e |-> res.setCookie["studio_expires"].value], "e"), Num(res.wroteAt))

----------------------------------------------------------------------------
(* Properties of the redirect targets *)

\* the response is the token-stripping redirect of a bootstrap
TokenStrippingRedirect ==
    pc = "responded" /\ res.kind = "redirect" /\ res.setCookie # EmptyMap

\* p begins with a single "/" and does not begin with "//"
SingleSlashStart(p) ==
    /\ Len(p) >= 1
    /\ p[1] = "/"
    /\ ~(Len(p) >= 2 /\ p[2] = "/")

\* C11 (SpecPaths): the target of the token-stripping redirect is the request
\* path when that begins with a single "/" and not with "//", and "/" for
\* every other path: "//evil.com", "http://evil.com" and "" give "/",
\* "/studio/abc" gives "/studio/abc"
C11_SafePathTarget ==
    TokenStrippingRedirect
    => /\ res.location = (IF SingleSlashStart(req.path) THEN req.path ELSE <<"/">>)
       /\ req.path \in {SlashSlashEvil, HttpEvil, <<>>} => res.location = <<"/">>
       /\ req.path = StudioAbc => res.location = StudioAbc

\* a bootstrap on "//evil.com" was redirected to "/"
C11_Witness ==
    /\ TokenStrippingRedirect
    /\ req.path = SlashSlashEvil
    /\ res.location = <<"/">>

\* a URL that names its own host: protocol-relative, or with a scheme
NamesHost(l) ==
    \/ Len(l) >= 2 /\ l[1] = "/" /\ l[2] = "/"
    \/ \E i \in 1..Len(l) : l[i] = ":" /\ \A j \in 1..(i - 1) : l[j] # "/"

\* C12 (Spec): every redirect of the gate targets ERP_URL or a path on the
\* studio's own origin; whatever path, query and cookies the client chose,
\* the Location is never an absolute or protocol-relative URL of the client
C12_RedirectTargets ==
    pc = "responded" /\ res.kind = "redirect"
    => \/ res.location = ERP_URL
       \/ SameOriginPath(res.location) /\ ~NamesHost(res.location)

\* a bootstrap on a protocol-relative path was redirected, and not to that path
C12_Witness ==
    /\ pc = "responded"
    /\ res.kind = "redirect"
    /\ NamesHost(req.path)
    /\ req.path[1] = "/"
    /\ res.location # ERP_URL

----------------------------------------------------------------------------
(* Properties of the bypass *)

\* C13 (SpecForged): with the bypass flag off a request is passed on only if
\* the credentials of the client's session were issued by the identity
\* provider, handed over by the ERP or returned by a refresh
C13_OnlyIssuedCredentialsPass ==
    ~BYPASS_AUTH /\ pc = "responded" /\ res.kind = "next"
    => /\ Has(req.cookies, "studio_token")
       /\ Has(req.cookies, "studio_refresh")
       /\ req.cookies["studio_token"] \in Issued
       /\ req.cookies["studio_refresh"] \in Issued

\* C14 (Spec): with the bypass flag on every request is passed on at once,
\* whatever its path, query and cookies: no cookie is written or cleared, no
\* redirect is issued, the provider is never called and the request never waits
C14_BypassPassesEverything ==
    BYPASS_AUTH /\ pc # "idle"
    => /\ pc = "responded"
       /\ [res EXCEPT !.content = "none"] = PassOn
       /\ res.content # "none"
       /\ res.setCookie = EmptyMap
       /\ res.cleared = {}
       /\ res.location = <<>>
       /\ calls = 0
       /\ now = req.at

\* under the bypass a request with a bootstrap triple and no cookies was passed on
C14_Witness ==
    /\ BYPASS_AUTH
    /\ pc = "responded"
    /\ HasTriple(req.query)
    /\ req.cookies = EmptyMap
    /\ res.kind = "next"

----------------------------------------------------------------------------
(* Properties of the outcome *)

\* C15 (Spec): for every request, a malformed expires_at and a throwing
\* provider included, the handler ends in exactly one outcome, the pass-through
\* or a redirect: never in an error response, never without an answer
C15_PassOrRedirect ==
    pc = "responded" => res.kind \in {"next", "redirect"}

----------------------------------------------------------------------------
(* Properties of the cookie lifetimes *)

\* the response writes the session cookies, at bootstrap or after a refresh
SessionWrite == pc = "responded" /\ res.setCookie # EmptyMap

\* the expiry, in seconds, that the response stores in studio_expires
WrittenExpiry == parseInt(res.setCookie["studio_expires"].value).v

\* C16 (Spec): on every session write, at bootstrap and after a refresh, the
\* Max-Age of studio_token and of studio_expires is min(expiry - now, 24 h),
\* so it never exceeds 24 h whatever expiry the client or the provider gave
C16_TokenMaxAge ==
    SessionWrite
    => /\ res.setCookie["studio_token"].maxAge = PolicyMaxAge(WrittenExpiry, res.wroteAt)
       /\ res.setCookie["studio_expires"].maxAge = PolicyMaxAge(WrittenExpiry, res.wroteAt)
       /\ res.setCookie["studio_token"].maxAge <= 24 * 60 * 60 * 1000

\* a refresh whose new expiry is more than 24 h away was written with 24 h
C16_Witness ==
    /\ SessionWrite
    /\ RefreshSucceeded
    /\ WrittenExpiry * 1000 - res.wroteAt > 24 * 60 * 60 * 1000
    /\ res.setCookie["studio_token"].maxAge = 24 * 60 * 60 * 1000

\* C17 (Spec): on every session write, at bootstrap and after a refresh,
\* studio_refresh gets a Max-Age of exactly 24 h, so it never lives shorter
\* than the studio_token written in the same response
C17_RefreshMaxAge ==
    SessionWrite
    => /\ res.setCookie["studio_refresh"].maxAge = 24 * 60 * 60 * 1000
       /\ res.setCookie["studio_refresh"].maxAge >= res.setCookie["studio_token"].maxAge

\* a bootstrap wrote studio_token with less than 24 h and studio_refresh with 24 h
C17_Witness ==
    /\ SessionWrite
    /\ HasTriple(req.query)
    /\ res.setCookie["studio_token"].maxAge < 24 * 60 * 60 * 1000
    /\ res.setCookie["studio_refresh"].maxAge = 24 * 60 * 60 * 1000

----------------------------------------------------------------------------
(* Properties of the session's duration *)

\* C18 (SpecBrowser): a session lasts at most 24 h: with the bypass flag off
\* no request is passed on more than 24 h after the client's most recent
\* bootstrap, whatever requests and silent refreshes happened in between
C18_NoPassAfterADay ==
    ~BYPASS_AUTH /\ pc = "responded" /\ res.kind = "next"
    => /\ seen.bootAt >= 0
       /\ req.at - seen.bootAt <= 24 * 60 * 60 * 1000

\* the request arrives from a browser that held a session idleFor ms ago and
\* has sent nothing since
IdleSession == pc = "responded" /\ req.browser /\ seen.activeAt >= 0 /\ ~HasTriple(req.query)
IdleFor == req.at - seen.activeAt

\* C19 (SpecBrowser): inactivity ends a session exactly at 24 h: a client idle
\* for 24 h or more is redirected to the ERP on its next request, and a client
\* idle for less is not, provided the provider still accepts its refresh
\* credential
C19_IdleDayEndsSession ==
    ~BYPASS_AUTH /\ IdleSession
    => /\ IdleFor >= 24 * 60 * 60 * 1000
          => res.kind = "redirect" /\ res.location = ERP_URL
       /\ IdleFor < 24 * 60 * 60 * 1000 /\ (calls = 1 => RefreshSucceeded)
          => ~(res.kind = "redirect" /\ res.location = ERP_URL)

----------------------------------------------------------------------------
(* Properties of concurrent requests *)

\* request r carries both session cookies, no bootstrap triple, and a cached
\* expiry at or before 5 minutes after its arrival
NearExpiry(r) ==
    /\ ~HasTriple(r.query)
    /\ Has(r.cookies, "studio_token")
    /\ Has(r.cookies, "studio_refresh")
    /\ ~Gt(ExpiryMs(r.cookies, "studio_expires"), Num(r.at + 5 * 60 * 1000))

\* each of two requests in flight that saw a near-expiry session has called
\* setSession, whatever the state of the other
EachRefreshes ==
    ~BYPASS_AUTH
    => /\ pc # "idle" /\ NearExpiry(req) => calls = 1
       /\ peer.pc # "idle" /\ NearExpiry(peer.req) => peer.calls = 1

\* the store j holds exactly what response rs wrote or cleared
ExactlyOf(j, rs) ==
    /\ \A k \in DOMAIN j :
         /\ k \in DOMAIN rs.setCookie
         /\ k \notin rs.cleared
         /\ j[k].value = rs.setCookie[k].value
    /\ \A k \in DOMAIN rs.setCookie : rs.setCookie[k].maxAge >= 1000 => k \in DOMAIN j

\* response rs writes or clears session cookies
Writes(rs) == rs.setCookie # EmptyMap \/ rs.cleared # {}

\* a step in which the browser applies the response of one of its requests:
\* the store then holds that response's cookies only, or is untouched when
\* the response neither wrote nor cleared
LastWriteWins ==
    /\ pc = "responded" /\ pc' = "idle" /\ req.browser
       => IF Writes(res) THEN ExactlyOf(jar', res) ELSE jar' = jar
    /\ peer.pc = "responded" /\ peer'.pc = "idle"
       => IF Writes(peer.res) THEN ExactlyOf(jar', peer.res) ELSE jar' = jar

\* C20 (SpecRace): two concurrent requests of one client that both see a
\* near-expiry session each call setSession, neither waiting for the other,
\* and when the client applies a response its three cookies are exactly those
\* that response wrote or cleared, so after both the last one has won and the
\* store is never a mix of the two
C20_ConcurrentRefreshes == [](EachRefreshes) /\ [][LastWriteWins]_vars

\* both requests called setSession; the answer to the first is in the store
\* and the second response, with other credentials, is about to be applied
C20_Witness ==
    /\ pc = "idle"
    /\ "studio_token" \in DOMAIN jar
    /\ jar["studio_token"].value = <<"U">>
    /\ peer.pc = "responded"
    /\ peer.calls = 1
    /\ peer.req.cookies["studio_token"] = <<"T">>
    /\ peer.res.setCookie # EmptyMap
    /\ peer.res.setCookie["studio_token"].value = <<"V">>

----------------------------------------------------------------------------
(* Properties of the session's life cycle *)

\* the browser, right after a bootstrap whose expires_at was more than 5
\* minutes ahead, requests again with the cookies of that bootstrap and no
\* query (1 ms being the time between the two clock readings of the bootstrap)
FollowUp ==
    /\ pc # "idle"
    /\ req.browser
    /\ req.query = EmptyMap
    /\ seen.bootAt >= 0
    /\ req.at - seen.bootAt <= 1
    /\ Has(req.cookies, "studio_token") /\ req.cookies["studio_token"] = <<"T">>
    /\ Has(req.cookies, "studio_refresh") /\ req.cookies["studio_refresh"] = <<"R">>
    /\ Gt(ExpiryMs(req.cookies, "studio_expires"), Num(seen.bootAt + 5 * 60 * 1000))

NoSessionRequest ==
    /\ pc = "responded"
    /\ req.browser
    /\ ~HasTriple(req.query)
    /\ ~Has(req.cookies, "studio_token") \/ ~Has(req.cookies, "studio_refresh")

----------------------------------------------------------------------------
(* Properties of the cookie attributes *)

----------------------------------------------------------------------------
(* Properties of the handler as a function of its inputs *)

\* what the claim calls the outcome: allowed or redirected (and where to),
\* and the cookies written and cleared
Outcome(rs) ==
    [allowed |-> rs.kind = "next",
     redirected |-> rs.kind = "redirect",
     location |-> rs.location,
     setCookie |-> rs.setCookie,
     cleared |-> rs.cleared]

\* the two requests in flight have the same path, query and cookies and
\* arrived at the same time
SameRequest ==
    /\ pc # "idle"
    /\ peer.pc # "idle"
    /\ req.path = peer.req.path
    /\ req.query = peer.req.query
    /\ req.cookies = peer.req.cookies
    /\ req.at = peer.req.at

\* both are answered, at the same time and after the same provider answer
SameAnswer ==
    /\ pc = "responded"
    /\ peer.pc = "responded"
    /\ reply = peer.reply
    /\ res.wroteAt = peer.res.wroteAt

----------------------------------------------------------------------------
(* Properties of the start-up *)

\* a request that takes the refresh path is being handled or has been
RefreshPathRuns == ~BYPASS_AUTH /\ pc # "idle" /\ NearExpiry(req)

\* C26 (SpecStartup): when BYPASS_AUTH is not 'true' and SUPABASE_URL or
\* SUPABASE_PUBLISHABLE_KEY is missing, the process exits with code 1 before
\* it serves any request; so whenever the refresh path runs, the provider
\* client is initialised, never null
C26_CredentialsRequired ==
    /\ ( /\ ~BYPASS_AUTH
         /\ ~proc.SUPABASE_URL \/ ~proc.SUPABASE_PUBLISHABLE_KEY )
       => /\ proc.status \in {"starting", "exited"}
          /\ proc.status = "exited" => proc.exitCode = 1
          /\ pc = "idle" /\ req = NoReq /\ jar = EmptyMap
    /\ RefreshPathRuns => proc.supabase = "client" /\ calls = 1

\* the process exited with code 1 for a missing key, having served nothing
C26_WitnessExit ==
    /\ ~BYPASS_AUTH
    /\ proc.SUPABASE_URL
    /\ ~proc.SUPABASE_PUBLISHABLE_KEY
    /\ proc.status = "exited"
    /\ proc.exitCode = 1

----------------------------------------------------------------------------
(* Properties of the order of the checks *)

\* the request carries the bootstrap triple with an expires_at later than
\* its arrival, and a complete session in its cookies
BootstrapOverSession ==
    /\ pc # "idle"
    /\ HasTriple(req.query)
    /\ Gt(ExpiryMs(req.query, "expires_at"), Num(req.at + 1))
    /\ Has(req.cookies, "studio_token")
    /\ Has(req.cookies, "studio_refresh")

\* C27 (Spec): the checks run in the order bypass, bootstrap, session: a
\* request with the bootstrap triple and a future expires_at replaces the
\* client's session by the query values also when its cookies hold a live
\* session; the cookies are not consulted and setSession is not called.  (The
\* three cookies are written with the query's values; the client stores them
\* when their Max-Age is at least one second.)
C27_BootstrapBeforeSession ==
    /\ BYPASS_AUTH /\ pc # "idle" => res.kind = "next" /\ res.setCookie = EmptyMap
    /\ ~BYPASS_AUTH /\ BootstrapOverSession
       => /\ pc = "responded"
          /\ calls = 0
          /\ res.kind = "redirect"
          /\ res.location # ERP_URL
          /\ DOMAIN res.setCookie = CookieNames
          /\ res.setCookie["studio_token"].value = req.query["token"]
          /\ res.setCookie["studio_refresh"].value = req.query["refresh_token"]
          /\ res.setCookie["studio_expires"].value = req.query["expires_at"]
          /\ res.setCookie["studio_token"].maxAge >= 1000
             => ClientCookiesAfter =
                  [k \in CookieNames |->
                      CASE k = "studio_token" -> req.query["token"]
                        [] k = "studio_refresh" -> req.query["refresh_token"]
                        [] k = "studio_expires" -> req.query["expires_at"]]

\* a bootstrap link was followed with a live session in the cookies, whose
\* cached expiry was replaced by the link's
C27_Witness ==
    /\ ~BYPASS_AUTH
    /\ BootstrapOverSession
    /\ FarFromExpiry
    /\ req.cookies["studio_expires"] # req.query["expires_at"]
    /\ ClientCookiesAfter["studio_expires"] = req.query["expires_at"]

\* C28 (Spec): with the bypass flag off no request that is passed on carries
\* a token or a refresh_token query parameter, whether all three parameters
\* were given or only some of them
C28_NoCredentialsInPassedUrl ==
    ~BYPASS_AUTH /\ pc = "responded" /\ res.kind = "next"
    => ~Has(req.query, "token") /\ ~Has(req.query, "refresh_token")

----------------------------------------------------------------------------
(* Properties of the routes behind the gate *)

\* C29 (SpecRoutes): every route, /api/renders, /downloads, /out/* and the
\* proxy to the studio, is reached only after the gate has allowed the
\* request: with the bypass flag off a request without a session receives no
\* render listing, no rendered file, no downloads page and no studio content
C29_RoutesBehindGate ==
    ~BYPASS_AUTH /\ pc = "responded" /\ res.content # "none"
    => /\ res.kind = "next"
       /\ Has(req.cookies, "studio_token")
       /\ Has(req.cookies, "studio_refresh")

\* no file has been handed to the browser for download more than once
DownloadedAtMostOnce == \A f \in Files : page.downloaded[f] <= 1

\* a step in which a call whose fetch did not bring a JSON listing ends
FailedPollEnds ==
    \E i \in Slots :
        /\ page.fetches[i] # NoFetch
        /\ page.fetches[i].outcome # "json"
        /\ page'.fetches[i] = NoFetch

\* such a step neither downloads anything nor touches knownFiles
FailedPollInert ==
    FailedPollEnds =>
        /\ page'.downloaded = page.downloaded
        /\ page'.knownFiles = page.knownFiles

\* C30: on the downloads page a file that stays in the listing is downloaded
\* automatically at most once, however the initial check and the polls
\* interleave and overlap, and a poll that failed, was redirected or did not
\* bring JSON downloads nothing and leaves the known files as they were.
C30_DownloadedOnce == [](DownloadedAtMostOnce) /\ [][FailedPollInert]_vars

====
